---- MODULE Spec2Model ----
(***************************************************************************)
(* Asset-tag allocation of django-partvault: the AssetTagSequence ledger   *)
(* (models.py), the Item save/delete hooks that drive it, the bulk-reserve *)
(* view, and the read side: the base-36 codec and the reservation summary  *)
(* of the profile view (views.py).                                         *)
(*                                                                         *)
(* Database model: PostgreSQL-style READ COMMITTED with autocommit.  Every *)
(* ORM statement outside transaction.atomic() commits on its own, so the   *)
(* committed tables `seq' and `items' change one statement at a time.      *)
(* Inside AssetTagSequence.assign's atomic block the writes stay private   *)
(* to the worker until the commit step; the row lock taken by              *)
(* select_for_update(skip_locked=True) is held until then.  Primary keys   *)
(* come from a sequence that is never rolled back.                         *)
(*                                                                         *)
(* Workers are request handlers (or shell/admin callers) running in        *)
(* parallel.  A worker may stop between any two of its statements (Fail):  *)
(* an open transaction is then rolled back, committed statements stay.     *)
(***************************************************************************)
EXTENDS Integers, Sequences, FiniteSets

\* ---------------------------------------------------------------- bounds
Workers == {"w1", "w2"}
Users == {"u1", "u2"}
\* One collection, owned by u1; u2 only reserves.
Collections == {"c1"}

\* Largest AssetTagSequence id the model hands out.
MaxId == 4
\* Largest Item id the model hands out.
MaxItems == 2
\* The per-user cap of reserve(), models.py:336 (1000 in the source),
\* scaled down so that the cap is reached inside the model.
ReservedLimit == 2
\* The loop bound of reserve_asset_tags, views.py:763 (250 in the source),
\* scaled down likewise.
BulkCount == 2

\* Requests that may stop half-way in one run.
MaxFails == 1

\* Preset tags tried on new items: the tags of ids 1..MaxPreset.
MaxPreset == 1

\* Rows the ledger holds when a scenario starts.
MaxPre == 1

\* Width of a tag: CharField(max_length=6) and zfill(6).
TagWidth == 6

\* ---------------------------------------------------------------- values
RESERVED == "reserved"
ASSIGNED == "assigned"
VOID == "void"

\* Python None / "" for asset_tag (both are falsy in `not self.asset_tag').
NoTag == << >>
\* NULL for assigned_item, and "no row" for a worker's locals.
NoItem == 0
NoRec == 0
\* NULL for reserved_at (an instance not stamped yet) and assigned_at.
NoTime == 0
\* assigned_at once set: the program never reads the value, so the model
\* keeps only whether it is set.
SomeTime == 1

\* Collection.owner
Owner(c) == IF c = "c1" THEN "u1" ELSE "u2"

\* ---------------------------------------------------------------- codec
Alphabet ==
  << "0", "1", "2", "3", "4", "5", "6", "7", "8", "9", "A", "B", "C", "D",
     "E", "F", "G", "H", "I", "J", "K", "L", "M", "N", "O", "P", "Q", "R",
     "S", "T", "U", "V", "W", "X", "Y", "Z" >>

\* The while loop of _to_base36: least significant digit appended first,
\* then reversed, which is the most significant digit first.
RECURSIVE Base36Digits(_)
Base36Digits(value) ==
  IF value = 0 THEN << >>
  ELSE Append(Base36Digits(value \div 36), Alphabet[(value % 36) + 1])

\* A loop that stops one digit early: every value below 36 renders as "".
RECURSIVE Base36DigitsShort(_)
Base36DigitsShort(value) ==
  IF value < 36 THEN << >>
  ELSE Append(Base36DigitsShort(value \div 36), Alphabet[(value % 36) + 1])

to_base36_short(value) ==
  IF value <= 0 THEN << "0" >> ELSE Base36DigitsShort(value)

\* AssetTagSequence._to_base36
to_base36(value) ==
  IF value <= 0 THEN << "0" >> ELSE Base36Digits(value)

\* str.zfill(width): left-pad with "0"; a longer string is returned as is.
RECURSIVE zfill(_, _)
zfill(s, width) ==
  IF Len(s) >= width THEN s ELSE zfill(<< "0" >> \o s, width)

\* The tag AssetTagSequence.save derives from a fresh primary key.
TagOf(id) == zfill(to_base36(id), TagWidth)

\* ----------------------------------------------------------------- state
VARIABLES
  seq,         \* committed AssetTagSequence rows: id -> row
  nextSeqId,   \* the id sequence of the AssetTagSequence table
  items,       \* committed Item rows: id -> [collection, asset_tag]
  nextItemId,  \* the id sequence of the Item table
  wk,          \* per worker: position and locals of the running request
  last,        \* outcome of the request that ended most recently
  fails,       \* number of requests that stopped half-way so far
  pure,        \* history, per user: only sequential reserve calls so far
  value,       \* the integer a codec call is given
  result       \* what the read-side call that ran most recently returned

vars ==
  << seq, nextSeqId, items, nextItemId, wk, last, fails, pure, value, result >>

\* The state of the read side: the ledger operations never touch it.
readSide == << value, result >>

\* No read-side call has run.
NoResult == [ fn |-> "none", arg |-> 0, val |-> 0 ]

\* The locals of a request of `user' that has not started.
IdleWorker(user) ==
  [ pc |-> "idle", user |-> user, item |-> NoItem,
    rec |-> NoRec, minted |-> FALSE, rtag |-> NoTag, ts |-> NoTime,
    i |-> 0, cnt |-> 0 ]

\* A worker between requests.
Idle == IdleWorker("u1")

\* Worker w goes on with locals `new'.
Move(w, new) ==
  /\ wk' = [wk EXCEPT ![w] = new]
  /\ last' = last

\* Worker w ends its request with outcome `res'.
Done(w, res) ==
  /\ wk' = [wk EXCEPT ![w] = Idle]
  /\ last' = res

Init ==
  /\ seq = << >>
  /\ nextSeqId = 1
  /\ items = << >>
  /\ nextItemId = 1
  /\ wk = [ w \in Workers |-> Idle ]
  /\ last = "none"
  /\ fails = 0
  /\ pure = [ u \in Users |-> TRUE ]
  /\ value = 0
  /\ result = NoResult

\* ------------------------------------------------------------- the clock
RECURSIVE SetMax(_)
SetMax(S) ==
  IF S = {} THEN 0
  ELSE LET x == CHOOSE y \in S : TRUE
           m == SetMax(S \ {x})
       IN IF x > m THEN x ELSE m

\* datetime.now() / auto_now_add: a reading later than every reading that is
\* still held anywhere (in a row or in a worker's unsaved instance).  Only
\* the order of timestamps is observable, so readings are numbered densely.
Now ==
  1 + SetMax({ seq[r].at : r \in DOMAIN seq }
             \cup { wk[w].ts : w \in Workers })

\* ------------------------------------------------------ ledger operations
\* A freshly inserted row: status defaults to RESERVED, asset_tag is NULL.
NewRow(user, at) ==
  [ tag |-> NoTag, status |-> RESERVED, by |-> user, at |-> at,
    item |-> NoItem, aat |-> NoTime ]

\* A table with row `id' written.
Put(table, id, row) ==
  [ k \in DOMAIN table \cup {id} |-> IF k = id THEN row ELSE table[k] ]

\* A table without the rows in `ids'.
Drop(table, ids) == [ k \in DOMAIN table \ ids |-> table[k] ]

\* filter(reserved_by=user, status=RESERVED).count()
CountReserved(user) ==
  Cardinality({ r \in DOMAIN seq :
                  seq[r].by = user /\ seq[r].status = RESERVED })

\* The comparison with the cap, off by one.
QuotaReachedLate(count) == count > ReservedLimit

\* reserve(): `if reserved_count >= 1000: raise ValueError'
QuotaReached(count) == count >= ReservedLimit

\* A row lock taken by select_for_update and held by a transaction that has
\* not ended: the worker is between its SELECT and its COMMIT.
Locked(r) ==
  \E w \in Workers :
    wk[w].pc = "as_mark" /\ ~wk[w].minted /\ wk[w].rec = r

\* ---------------------------------------------------- id budget (bounds)
\* Ids a running request may still draw from the AssetTagSequence sequence.
Need(w) ==
  CASE wk[w].pc \in {"br_count", "br_stamp", "br_insert"} ->
         BulkCount - wk[w].i
    [] wk[w].pc = "br_settag" -> BulkCount - wk[w].i - 1
    [] wk[w].pc \in {"as_select", "as_count", "as_stamp", "as_insert"} -> 1
    [] OTHER -> 0

RECURSIVE SumNeed(_)
SumNeed(W) ==
  IF W = {} THEN 0
  ELSE LET w == CHOOSE x \in W : TRUE IN Need(w) + SumNeed(W \ {w})

\* Ids left once every running request has drawn all it may.
FreeIds == MaxId - (nextSeqId - 1) - SumNeed(Workers)

\* Another request of the same user is running.
Busy(w, user) ==
  \E o \in Workers \ {w} : wk[o].pc # "idle" /\ wk[o].user = user

\* ---------------------------------------------- views.reserve_asset_tags
\* POST /reserve: reserved_count = 0, enter the loop.
ReserveAssetTags(w, user) ==
  /\ wk[w].pc = "idle"
  /\ FreeIds >= BulkCount
  /\ Move(w, [IdleWorker(user) EXCEPT !.pc = "br_count"])
  /\ pure' = [pure EXCEPT ![user] = @ /\ ~Busy(w, user)]
  /\ UNCHANGED << seq, nextSeqId, items, nextItemId, fails >>
  /\ UNCHANGED readSide

\* A view that reports plain success for every count but zero.
BulkResultLenient(cnt) == IF cnt > 0 THEN "ok" ELSE "full"

\* The message the view flashes for a count.
BulkResult(cnt) ==
  IF cnt = BulkCount THEN "ok" ELSE IF cnt > 0 THEN "partial" ELSE "full"

\* A caller that undoes its work on the error: the user's Reserved rows
\* that no item holds are removed.
RollBackOnValueError(table, user) ==
  Drop(table, { r \in DOMAIN table :
                  /\ table[r].by = user
                  /\ table[r].status = RESERVED
                  /\ table[r].item = NoItem })

\* A reserve() that makes room on the error: the user's Reserved rows are
\* voided.
VoidOnValueError(table, user) ==
  [ r \in DOMAIN table |->
      IF table[r].by = user /\ table[r].status = RESERVED
        THEN [table[r] EXCEPT !.status = VOID]
        ELSE table[r] ]

\* The committed ledger after reserve() raised ValueError.  The raise comes
\* before any write of the call, and the statements of earlier calls have
\* committed: `except ValueError: break' in the view undoes nothing, and the
\* ROLLBACK of assign's atomic block has nothing to undo.
AfterValueError(table, user) == table

\* reserve(): the count query and the quota check.  ValueError breaks the
\* loop of the view.
BrCount(w) ==
  /\ wk[w].pc = "br_count"
  /\ IF QuotaReached(CountReserved(wk[w].user))
       THEN /\ Done(w, BulkResult(wk[w].cnt))
            /\ seq' = AfterValueError(seq, wk[w].user)
       ELSE /\ Move(w, [wk[w] EXCEPT !.pc = "br_stamp"])
            /\ seq' = seq
  /\ UNCHANGED << nextSeqId, items, nextItemId, fails, pure >>
  /\ UNCHANGED readSide

\* objects.create(): pre_save fills reserved_at (auto_now_add).
BrStamp(w) ==
  /\ wk[w].pc = "br_stamp"
  /\ Move(w, [wk[w] EXCEPT !.pc = "br_insert", !.ts = Now])
  /\ UNCHANGED << seq, nextSeqId, items, nextItemId, fails, pure >>
  /\ UNCHANGED readSide

\* save(): super().save() inserts the row, which commits with a NULL tag.
BrInsert(w) ==
  /\ wk[w].pc = "br_insert"
  /\ nextSeqId <= MaxId
  /\ seq' = Put(seq, nextSeqId, NewRow(wk[w].user, wk[w].ts))
  /\ nextSeqId' = nextSeqId + 1
  /\ Move(w, [wk[w] EXCEPT !.pc = "br_settag", !.rec = nextSeqId,
                      !.ts = NoTime])
  /\ UNCHANGED << items, nextItemId, fails, pure >>
  /\ UNCHANGED readSide

\* save(): the second UPDATE stores the tag derived from the id; it waits
\* for a row lock held on the row.  Then reserved_count += 1 and the loop
\* goes on or ends.
BrSetTag(w) ==
  /\ wk[w].pc = "br_settag"
  /\ ~Locked(wk[w].rec)
  /\ seq' = [seq EXCEPT ![wk[w].rec].tag = TagOf(wk[w].rec)]
  /\ IF wk[w].i + 1 = BulkCount
       THEN Done(w, BulkResult(wk[w].cnt + 1))
       ELSE Move(w, [wk[w] EXCEPT !.pc = "br_count", !.rec = NoRec,
                             !.i = @ + 1, !.cnt = @ + 1])
  /\ UNCHANGED << nextSeqId, items, nextItemId, fails, pure >>
  /\ UNCHANGED readSide

\* ------------------------------------------------------------- Item.save
\* Tags a caller may preset on a new Item (Item.asset_tag is an ordinary
\* editable field: the admin form and Item(asset_tag=...) set it).
PresetTags == { TagOf(k) : k \in 1..MaxPreset }

\* The unique index of Item.asset_tag; NULLs do not collide.
TagFree(tag, except) ==
  \/ tag = NoTag
  \/ \A j \in DOMAIN items \ {except} : items[j].asset_tag # tag

\* Item.save assigning on every save of an untagged item.
ShouldAssignAnySave(is_new, asset_tag) == asset_tag = NoTag

\* Item.save: `if is_new and not self.asset_tag'
ShouldAssign(is_new, asset_tag) == is_new /\ asset_tag = NoTag

\* Item.save of a new item: super().save() inserts the row, which commits.
\* With a preset tag the save ends here; otherwise assign() follows.
ItemInsert(w, c, preset) ==
  /\ wk[w].pc = "idle"
  /\ nextItemId <= MaxItems
  /\ TagFree(preset, NoItem)
  /\ items' = Put(items, nextItemId, [collection |-> c, asset_tag |-> preset])
  /\ nextItemId' = nextItemId + 1
  /\ IF ShouldAssign(TRUE, preset)
       THEN /\ FreeIds >= 1
            /\ Move(w, [IdleWorker(Owner(c)) EXCEPT
                           !.pc = "as_select", !.item = nextItemId])
            /\ pure' = [pure EXCEPT ![Owner(c)] = FALSE]
       ELSE /\ Done(w, "created")
            /\ UNCHANGED pure
  /\ UNCHANGED << seq, nextSeqId, fails >>
  /\ UNCHANGED readSide

\* Item.save of an existing item (item_edit): the row is updated, none of
\* the modelled columns changes, and is_new is False.
ItemUpdate(w, it) ==
  /\ wk[w].pc = "idle"
  /\ it \in DOMAIN items
  /\ \A o \in Workers : wk[o].pc = "idle" \/ wk[o].item # it
  /\ LET owner == Owner(items[it].collection) IN
     IF ShouldAssign(FALSE, items[it].asset_tag)
       THEN /\ FreeIds >= 1
            /\ Move(w, [IdleWorker(owner) EXCEPT
                           !.pc = "as_select", !.item = it])
            /\ pure' = [pure EXCEPT ![owner] = FALSE]
       ELSE /\ Done(w, "updated")
            /\ UNCHANGED pure
  /\ UNCHANGED << seq, nextSeqId, items, nextItemId, fails >>
  /\ UNCHANGED readSide

\* ----------------------------------------------- AssetTagSequence.assign
\* A SELECT without the reserved_by filter: the Reserved rows of every user
\* that are bound to no item.
EligibleAnyUser(user) ==
  { r \in DOMAIN seq :
      /\ seq[r].status = RESERVED
      /\ seq[r].item = NoItem }

\* The rows the SELECT of assign may return: Reserved rows of the user with
\* no item, minus the rows locked by another transaction (skip_locked).
Eligible(user) ==
  { r \in DOMAIN seq :
      /\ seq[r].by = user
      /\ seq[r].status = RESERVED
      /\ seq[r].item = NoItem }

\* A plain SELECT: rows locked by other transactions are returned too.
UnlockedNoSkip(rows) == rows

\* A SELECT that returns nothing as soon as one candidate is locked, so that
\* the caller mints although unlocked candidates exist.
UnlockedAllOrNone(rows) ==
  IF \E r \in rows : Locked(r) THEN {} ELSE rows

\* select_for_update(skip_locked=True)
Unlocked(rows) == { r \in rows : ~Locked(r) }

\* A plain select_for_update(): the statement waits until the locks that
\* other transactions hold on its candidate rows are released.
WaitsForLocked(rows) == { r \in rows : Locked(r) }

\* select_for_update(skip_locked=True): the rows whose lock the statement
\* has to wait for.  Locked candidates are skipped, so there are none.
WaitsFor(rows) == {}

\* order_by("-reserved_at").first()
NewestOf(rows) ==
  IF rows = {} THEN NoRec
  ELSE CHOOSE r \in rows : \A o \in rows : seq[r].at >= seq[o].at

\* order_by("reserved_at").first()
OldestOf(rows) ==
  IF rows = {} THEN NoRec
  ELSE CHOOSE r \in rows : \A o \in rows : seq[r].at <= seq[o].at

\* assign(): BEGIN, then the locking SELECT.  A row found is locked until
\* the transaction ends; its fields are now in the worker's instance.
AsSelect(w) ==
  /\ wk[w].pc = "as_select"
  /\ WaitsFor(Eligible(wk[w].user)) = {}
  /\ LET r == OldestOf(Unlocked(Eligible(wk[w].user))) IN
       IF r # NoRec
         THEN Move(w, [wk[w] EXCEPT !.pc = "as_mark", !.rec = r,
                               !.rtag = seq[r].tag])
         ELSE Move(w, [wk[w] EXCEPT !.pc = "as_count"])
  /\ UNCHANGED << seq, nextSeqId, items, nextItemId, fails, pure >>
  /\ UNCHANGED readSide

\* assign() -> reserve(): the count query and the quota check.  ValueError
\* leaves the atomic block (ROLLBACK) and Item.save; the item row inserted
\* before stays, without a tag.
AsCount(w) ==
  /\ wk[w].pc = "as_count"
  /\ IF QuotaReached(CountReserved(wk[w].user))
       THEN /\ Done(w, "quota")
            /\ seq' = AfterValueError(seq, wk[w].user)
       ELSE /\ Move(w, [wk[w] EXCEPT !.pc = "as_stamp"])
            /\ seq' = seq
  /\ UNCHANGED << nextSeqId, items, nextItemId, fails, pure >>
  /\ UNCHANGED readSide

\* assign() -> reserve() -> create(): reserved_at is read.
AsStamp(w) ==
  /\ wk[w].pc = "as_stamp"
  /\ Move(w, [wk[w] EXCEPT !.pc = "as_insert", !.ts = Now])
  /\ UNCHANGED << seq, nextSeqId, items, nextItemId, fails, pure >>
  /\ UNCHANGED readSide

\* assign() -> reserve() -> save(): INSERT inside the transaction draws the
\* id; the row and the tag UPDATE that follows stay uncommitted.
AsInsert(w) ==
  /\ wk[w].pc = "as_insert"
  /\ nextSeqId <= MaxId
  /\ nextSeqId' = nextSeqId + 1
  /\ Move(w, [wk[w] EXCEPT !.pc = "as_mark", !.rec = nextSeqId,
                      !.minted = TRUE, !.rtag = TagOf(nextSeqId)])
  /\ UNCHANGED << seq, items, nextItemId, fails, pure >>
  /\ UNCHANGED readSide

\* An assign() that binds the item but leaves the status as it was.
MarkKeepsStatus(w) ==
  LET base == IF wk[w].minted
                THEN [NewRow(wk[w].user, wk[w].ts) EXCEPT !.tag = wk[w].rtag]
                ELSE seq[wk[w].rec]
  IN [base EXCEPT !.item = wk[w].item, !.aat = SomeTime]

\* An assign() that saves the row with a fresh reserved_at as well.
MarkRestamps(w) ==
  LET base == IF wk[w].minted
                THEN [NewRow(wk[w].user, wk[w].ts) EXCEPT !.tag = wk[w].rtag]
                ELSE seq[wk[w].rec]
  IN [base EXCEPT !.status = ASSIGNED, !.item = wk[w].item, !.aat = SomeTime,
                  !.at = Now]

\* The row assign() commits: status, assigned_item and assigned_at are
\* written (update_fields); a minted row is committed with them.
MarkAssigned(w) ==
  LET base == IF wk[w].minted
                THEN [NewRow(wk[w].user, wk[w].ts) EXCEPT !.tag = wk[w].rtag]
                ELSE seq[wk[w].rec]
  IN [base EXCEPT !.status = ASSIGNED, !.item = wk[w].item, !.aat = SomeTime]

\* assign(): the UPDATE and the COMMIT that ends the atomic block; the row
\* lock is released.
AsMark(w) ==
  /\ wk[w].pc = "as_mark"
  /\ seq' = Put(seq, wk[w].rec, MarkAssigned(w))
  /\ Move(w, [wk[w] EXCEPT !.pc = "ic_store", !.ts = NoTime])
  /\ UNCHANGED << nextSeqId, items, nextItemId, fails, pure >>
  /\ UNCHANGED readSide

\* Item.save: self.asset_tag = sequence.asset_tag, then the UPDATE of the
\* item row.  The unique index of Item.asset_tag rejects a tag another item
\* carries (IntegrityError); the item then stays untagged.
IcStore(w) ==
  /\ wk[w].pc = "ic_store"
  /\ IF TagFree(wk[w].rtag, wk[w].item)
       THEN /\ items' = [items EXCEPT ![wk[w].item].asset_tag = wk[w].rtag]
            /\ Done(w, "created")
       ELSE /\ UNCHANGED items
            /\ Done(w, "integrity")
  /\ UNCHANGED << seq, nextSeqId, nextItemId, fails, pure >>
  /\ UNCHANGED readSide

\* ----------------------------------------------------------- Item.delete
\* assigned_item = OneToOneField(on_delete=CASCADE): the rows go with the item.
OnDeleteCascade(table, it) ==
  Drop(table, { r \in DOMAIN table : table[r].item = it })

\* assigned_item = OneToOneField(on_delete=SET_NULL): the collector nulls
\* the reference of every row that points at the item.
OnDeleteAssignedItem(table, it) ==
  [ r \in DOMAIN table |->
      IF table[r].item = it THEN [table[r] EXCEPT !.item = NoItem]
      ELSE table[r] ]

\* A handler that hands the tag back: the rows become Reserved again.
release_asset_tag_on_item_delete(table, asset_tag) ==
  IF asset_tag = NoTag THEN table
  ELSE [ r \in DOMAIN table |->
           IF table[r].tag = asset_tag
             THEN [table[r] EXCEPT !.status = RESERVED]
             ELSE table[r] ]

\* The receiver without its early return: filter(asset_tag=None) selects
\* the rows whose tag is NULL.
void_without_guard(table, asset_tag) ==
  [ r \in DOMAIN table |->
      IF table[r].tag = asset_tag
        THEN [table[r] EXCEPT !.status = VOID]
        ELSE table[r] ]

\* A receiver that blanks the tag of the rows it voids.
void_and_clear_tag(table, asset_tag) ==
  IF asset_tag = NoTag THEN table
  ELSE [ r \in DOMAIN table |->
           IF table[r].tag = asset_tag
             THEN [table[r] EXCEPT !.status = VOID, !.tag = NoTag]
             ELSE table[r] ]

\* post_delete receiver: filter(asset_tag=instance.asset_tag).update(VOID),
\* nothing when the item has no tag.
void_asset_tag_on_item_delete(table, asset_tag) ==
  IF asset_tag = NoTag THEN table
  ELSE [ r \in DOMAIN table |->
           IF table[r].tag = asset_tag
             THEN [table[r] EXCEPT !.status = VOID]
             ELSE table[r] ]

\* The ledger after Item.delete() of `it': the collector's transaction nulls
\* the references, deletes the row and runs the post_delete receiver.
AfterItemDelete(table, it) ==
  void_asset_tag_on_item_delete(OnDeleteAssignedItem(table, it),
                                items[it].asset_tag)

\* Users whose rows the delete of `it' changes.
Touched(it) ==
  { seq[r].by : r \in { x \in DOMAIN seq :
      seq[x].item = it
      \/ (items[it].asset_tag # NoTag /\ seq[x].tag = items[it].asset_tag) } }

\* views.item_delete: the item is loaded and deleted.  Items still inside
\* their creating request are not deleted; the UPDATE of the receiver waits
\* for a row lock on a row it matches.
ItemDelete(it) ==
  /\ it \in DOMAIN items
  /\ \A w \in Workers : wk[w].pc = "idle" \/ wk[w].item # it
  /\ \A r \in DOMAIN seq :
       (items[it].asset_tag # NoTag /\ seq[r].tag = items[it].asset_tag)
         => ~Locked(r)
  /\ seq' = AfterItemDelete(seq, it)
  /\ items' = Drop(items, {it})
  /\ pure' = [ u \in Users |-> pure[u] /\ u \notin Touched(it) ]
  /\ UNCHANGED << nextSeqId, nextItemId, wk, last, fails >>
  /\ UNCHANGED readSide

\* ------------------------------------------------------------- failures
\* The request stops between two statements (worker killed, connection
\* lost): an open transaction is rolled back, committed statements stay.
\* A stop before a statement that only reads, or before the INSERT it leads
\* to, leaves the tables as a stop at the loop head (br_count) or at the
\* SELECT of assign (as_select) does, so one point stands for each group.
FailPoints == {"br_count", "br_settag", "as_select", "as_mark", "ic_store"}

\* An id sequence that is transactional: the ROLLBACK of a transaction that
\* drew an id gives the id back.
SequenceRolledBack(next, w) ==
  IF wk[w].pc = "as_mark" /\ wk[w].minted THEN wk[w].rec ELSE next

\* The id sequence after the request of worker w stopped.  The ROLLBACK of
\* assign's atomic block undoes the INSERT, not the draw from the sequence:
\* the id is gone.
AfterRollback(next, w) == next

Fail(w) ==
  /\ wk[w].pc \in FailPoints
  /\ fails < MaxFails
  /\ fails' = fails + 1
  /\ Done(w, "crashed")
  /\ pure' = [pure EXCEPT ![wk[w].user] = FALSE]
  /\ nextSeqId' = AfterRollback(nextSeqId, w)
  /\ UNCHANGED << seq, items, nextItemId >>
  /\ UNCHANGED readSide

\* ------------------------------------------------------------------ spec
Next ==
  \/ \E w \in Workers, u \in Users : ReserveAssetTags(w, u)
  \/ \E w \in Workers : BrCount(w)
  \/ \E w \in Workers : BrStamp(w)
  \/ \E w \in Workers : BrInsert(w)
  \/ \E w \in Workers : BrSetTag(w)
  \/ \E w \in Workers, c \in Collections, t \in PresetTags \cup {NoTag} :
       ItemInsert(w, c, t)
  \/ \E w \in Workers, it \in 1..MaxItems : ItemUpdate(w, it)
  \/ \E w \in Workers : AsSelect(w)
  \/ \E w \in Workers : AsCount(w)
  \/ \E w \in Workers : AsStamp(w)
  \/ \E w \in Workers : AsInsert(w)
  \/ \E w \in Workers : AsMark(w)
  \/ \E w \in Workers : IcStore(w)
  \/ \E it \in 1..MaxItems : ItemDelete(it)
  \/ \E w \in Workers : Fail(w)

Spec == Init /\ [][Next]_vars

\* A statement of assign() that can run is run: the database and the
\* request handler do not stall a request that waits for nothing.
AssignStep(w) ==
  AsSelect(w) \/ AsCount(w) \/ AsStamp(w) \/ AsInsert(w) \/ AsMark(w)

FairSpec == Spec /\ \A w \in Workers : WF_vars(AssignStep(w))

\* ------------------------------------------------- scenario: creations
\* Item creations alone, on a ledger that holds MaxPre rows of earlier
\* requests: a Reserved row (bulk reserve) or a Void row (an item created
\* and deleted) of either user.  No bulk reserve, delete or stop takes
\* part, so what the ledger shows is the work of the assign calls.
ReservedRow(user, id) ==
  [NewRow(user, id) EXCEPT !.tag = TagOf(id)]

VoidRow(user, id) ==
  [NewRow(user, id) EXCEPT !.tag = TagOf(id), !.status = VOID,
                           !.aat = SomeTime]

PreLedgers ==
  [ 1..MaxPre -> UNION { { ReservedRow(u, id), VoidRow(u, id) } :
                           u \in Users, id \in 1..MaxPre } ]

InitCreate ==
  /\ seq \in { l \in PreLedgers : \A id \in 1..MaxPre : l[id].at = id }
  /\ nextSeqId = MaxPre + 1
  /\ items = << >>
  /\ nextItemId = 1
  /\ wk = [ w \in Workers |-> Idle ]
  /\ last = "none"
  /\ fails = 0
  /\ pure = [ u \in Users |-> FALSE ]
  /\ value = 0
  /\ result = NoResult

NextCreate ==
  \/ \E w \in Workers, c \in Collections : ItemInsert(w, c, NoTag)
  \/ \E w \in Workers : AsSelect(w)
  \/ \E w \in Workers : AsCount(w)
  \/ \E w \in Workers : AsStamp(w)
  \/ \E w \in Workers : AsInsert(w)
  \/ \E w \in Workers : AsMark(w)
  \/ \E w \in Workers : IcStore(w)

SpecCreate == InitCreate /\ [][NextCreate]_vars

\* ---------------------------------------------- scenario: bulk reserves
\* Bulk-reserve requests run one at a time, on a ledger that holds PreBulk
\* rows of earlier requests.  The id budget lets a request start only while
\* no earlier request of the run has created a row, so the rows with an id
\* above PreBulk are the rows of one request.
PreBulk == MaxId - BulkCount

BulkLedgers ==
  [ 1..PreBulk -> UNION { { ReservedRow(u, id), VoidRow(u, id) } :
                            u \in Users, id \in 1..PreBulk } ]

InitBulk ==
  /\ seq \in { l \in BulkLedgers : \A id \in 1..PreBulk : l[id].at = id }
  /\ nextSeqId = PreBulk + 1
  /\ items = << >>
  /\ nextItemId = 1
  /\ wk = [ w \in Workers |-> Idle ]
  /\ last = "none"
  /\ fails = 0
  /\ pure = [ u \in Users |-> FALSE ]
  /\ value = 0
  /\ result = NoResult

NextBulk ==
  \/ \E w \in Workers, u \in Users : ReserveAssetTags(w, u)
  \/ \E w \in Workers : BrCount(w)
  \/ \E w \in Workers : BrStamp(w)
  \/ \E w \in Workers : BrInsert(w)
  \/ \E w \in Workers : BrSetTag(w)

SpecBulk == InitBulk /\ [][NextBulk]_vars

\* ------------------------------------------------------ views: the codec
\* Largest integer of the dense range the codec calls are given.
CodecMax == 1300

\* Integers around the lengths of 4, 5 and 6 digits, and the largest id a
\* 32-bit serial column holds.
CodecSamples ==
  { 46655, 46656, 1679615, 1679616, 60466175, 60466176, 2147483647 }

CodecInputs == (0..CodecMax) \cup CodecSamples

LowerAlphabet ==
  << "a", "b", "c", "d", "e", "f", "g", "h", "i", "j", "k", "l", "m", "n",
     "o", "p", "q", "r", "s", "t", "u", "v", "w", "x", "y", "z" >>

\* str.upper(): a lower-case letter becomes its capital, any other
\* character stays.
upper(s) ==
  [ i \in 1..Len(s) |->
      IF \E k \in 1..26 : LowerAlphabet[k] = s[i]
        THEN Alphabet[10 + (CHOOSE k \in 1..26 : LowerAlphabet[k] = s[i])]
        ELSE s[i] ]

\* str.strip(): leading and trailing blanks are removed.
RECURSIVE lstrip(_)
lstrip(s) ==
  IF s # << >> /\ Head(s) = " " THEN lstrip(Tail(s)) ELSE s

reversed(s) == [ i \in 1..Len(s) |-> s[Len(s) + 1 - i] ]

strip(s) == reversed(lstrip(reversed(lstrip(s))))

\* What a call that raises ValueError yields.
ValueError == -1

\* alphabet.index(char): the position of the character, counted from 0;
\* ValueError for a character that is not in the alphabet.
index(char) ==
  IF \E k \in 1..36 : Alphabet[k] = char
    THEN (CHOOSE k \in 1..36 : Alphabet[k] = char) - 1
    ELSE ValueError

\* The for loop of _base36_to_int over the characters left.
RECURSIVE Base36Total(_, _)
Base36Total(total, chars) ==
  IF chars = << >> THEN total
  ELSE IF index(Head(chars)) = ValueError THEN ValueError
  ELSE Base36Total(total * 36 + index(Head(chars)), Tail(chars))

\* views._base36_to_int
base36_to_int(s) == Base36Total(0, upper(s))

\* The while loop of _int_to_base36: the characters in the order they are
\* appended, least significant digit first.
RECURSIVE Base36Chars(_)
Base36Chars(v) ==
  IF v = 0 THEN << >>
  ELSE << Alphabet[(v % 36) + 1] >> \o Base36Chars(v \div 36)

\* An encoder that joins the characters in the order of the loop.
int_to_base36_unreversed(v) ==
  IF v <= 0 THEN << "0" >> ELSE Base36Chars(v)

\* views._int_to_base36
int_to_base36(v) ==
  IF v <= 0 THEN << "0" >> ELSE reversed(Base36Chars(v))

\* What a read-side call leaves behind: its name, its argument and what it
\* returned.
Call(fn, arg, val) == [ fn |-> fn, arg |-> arg, val |-> val ]

\* The tables and the requests that write them: no read-side call touches
\* them.
writeSide == << seq, nextSeqId, items, nextItemId, wk, last, fails, pure >>

\* The calls whose result is a base-36 string.
Encoders == { "_to_base36", "_int_to_base36" }

\* AssetTagSequence._to_base36(value)
ToBase36 ==
  /\ result' = Call("_to_base36", value, to_base36(value))
  /\ UNCHANGED << writeSide, value >>

\* views._int_to_base36(value)
IntToBase36 ==
  /\ result' = Call("_int_to_base36", value, int_to_base36(value))
  /\ UNCHANGED << writeSide, value >>

\* .zfill(6) of the string an encoder returned
ZFill ==
  /\ result.fn \in Encoders
  /\ result' = Call("zfill", result.val, zfill(result.val, TagWidth))
  /\ UNCHANGED << writeSide, value >>

\* views._base36_to_int of the string the last call returned
Base36ToInt ==
  /\ result.fn \in Encoders \cup {"zfill"}
  /\ result' = Call("_base36_to_int", result.val, base36_to_int(result.val))
  /\ UNCHANGED << writeSide, value >>

\* --------------------------------------------- scenario: the codec alone
\* The codec functions are called on one integer, each on the value or on
\* the string the call before returned.
InitCodec ==
  /\ seq = << >>
  /\ nextSeqId = 1
  /\ items = << >>
  /\ nextItemId = 1
  /\ wk = [ w \in Workers |-> Idle ]
  /\ last = "none"
  /\ fails = 0
  /\ pure = [ u \in Users |-> TRUE ]
  /\ value \in CodecInputs
  /\ result = NoResult

NextCodec == ToBase36 \/ IntToBase36 \/ ZFill \/ Base36ToInt

SpecCodec == InitCodec /\ [][NextCodec]_vars

\* ---------------------------------------------------------- views.profile
\* The orders in which the database may return the rows of a queryset that
\* has no ordering: by ascending id (a scan of the table) or by descending
\* id (a backward scan).
ScanOrders == { "asc", "desc" }

\* values_list("asset_tag", flat=True): one entry per row, NULL included, in
\* the order of the scan.
RECURSIVE ValuesList(_, _)
ValuesList(rows, order) ==
  IF rows = {} THEN << >>
  ELSE LET r == IF order = "asc"
                  THEN CHOOSE x \in rows : \A o \in rows : x <= o
                  ELSE CHOOSE x \in rows : \A o \in rows : x >= o
       IN << seq[r].tag >> \o ValuesList(rows \ {r}, order)

\* A query without the status filter: every tag of the user's rows.
all_asset_tags(user, order) ==
  ValuesList({ r \in DOMAIN seq : seq[r].by = user }, order)

\* filter(reserved_by=user, status=RESERVED).values_list("asset_tag")
reserved_asset_tags(user, order) ==
  ValuesList({ r \in DOMAIN seq :
                 seq[r].by = user /\ seq[r].status = RESERVED }, order)

\* [asset_tag.strip().upper() for asset_tag in ... if asset_tag]
RECURSIVE normalized_tags(_)
normalized_tags(tags) ==
  IF tags = << >> THEN << >>
  ELSE IF Head(tags) # NoTag
    THEN << upper(strip(Head(tags))) >> \o normalized_tags(Tail(tags))
    ELSE normalized_tags(Tail(tags))

\* One step of sorted(): x placed before the first larger element.
RECURSIVE SortedInsert(_, _)
SortedInsert(x, s) ==
  IF s = << >> THEN << x >>
  ELSE IF x <= Head(s) THEN << x >> \o s
  ELSE << Head(s) >> \o SortedInsert(x, Tail(s))

\* A summary that takes the values in the order of the scan.
unsorted(s) == s

\* sorted(values): ascending, equal values kept.
RECURSIVE sorted(_)
sorted(s) ==
  IF s = << >> THEN << >> ELSE SortedInsert(Head(s), sorted(Tail(s)))

\* The loop `for value in sorted_values[1:]' with its locals start, end and
\* ranges, and the append after the loop.
RECURSIVE FoldRanges(_, _, _, _)
FoldRanges(start, end, rest, ranges) ==
  IF rest = << >> THEN Append(ranges, << start, end >>)
  ELSE IF Head(rest) = end + 1
    THEN FoldRanges(start, Head(rest), Tail(rest), ranges)
    ELSE FoldRanges(Head(rest), Head(rest), Tail(rest),
                    Append(ranges, << start, end >>))

\* A summary that ends a range at every value: each tag is its own range.
RangesUnmerged(sorted_values) ==
  [ i \in 1..Len(sorted_values) |-> << sorted_values[i], sorted_values[i] >> ]

\* `if sorted_values:' and the ranges the loop builds.
Ranges(sorted_values) ==
  IF sorted_values = << >> THEN << >>
  ELSE FoldRanges(sorted_values[1], sorted_values[1], Tail(sorted_values),
                  << >>)

\* The separator of the f-string f"{start_tag} - {end_tag}".
Dash == << " ", "-", " " >>

\* Labels without .zfill(6): the digits of the two ends as
\* _int_to_base36 returns them.
RangeLabelUnpadded(range_start, range_end) ==
  LET start_tag == int_to_base36(range_start)
      end_tag == int_to_base36(range_end)
  IN [ label |-> IF range_start = range_end THEN start_tag
                 ELSE start_tag \o Dash \o end_tag,
       count |-> range_end - range_start + 1 ]

\* The dict appended for one range.
RangeLabel(range_start, range_end) ==
  LET start_tag == zfill(int_to_base36(range_start), TagWidth)
      end_tag == zfill(int_to_base36(range_end), TagWidth)
  IN [ label |-> IF range_start = range_end THEN start_tag
                 ELSE start_tag \o Dash \o end_tag,
       count |-> range_end - range_start + 1 ]

\* profile, from normalized_tags to reserved_asset_tag_labels.  A tag with a
\* character outside the alphabet makes _base36_to_int raise.
Summarize(tags) ==
  LET norm == normalized_tags(tags)
      ints == [ i \in 1..Len(norm) |-> base36_to_int(norm[i]) ]
      ranges == Ranges(sorted(ints))
  IN IF \E i \in 1..Len(ints) : ints[i] = ValueError THEN ValueError
     ELSE [ i \in 1..Len(ranges) |-> RangeLabel(ranges[i][1], ranges[i][2]) ]

\* The profile page of an authenticated user: the query and the summary.
Profile(user) ==
  /\ \E order \in ScanOrders :
       result' = Call("profile", user,
                      Summarize(reserved_asset_tags(user, order)))
  /\ UNCHANGED << writeSide, value >>

\* ------------------------------------------------- scenario: the summary
\* The profile page is rendered over a ledger grown by earlier requests.
\* Each of the ids 1..SummaryMax, and of the ids where the last digit wraps
\* round, is the id of a row Reserved by either user, of a Void row, or of
\* no row (an id drawn by a request that was rolled back).
SummaryMax == 5

SummaryIds == (1..SummaryMax) \cup { 35, 36 }

SummaryKinds == { "absent", "void" } \cup Users

SummaryLedger(kind) ==
  [ id \in { i \in SummaryIds : kind[i] # "absent" } |->
      IF kind[id] = "void" THEN VoidRow("u1", id)
      ELSE ReservedRow(kind[id], id) ]

InitSummary ==
  /\ \E kind \in [ SummaryIds -> SummaryKinds ] : seq = SummaryLedger(kind)
  /\ nextSeqId = SetMax(SummaryIds) + 1
  /\ items = << >>
  /\ nextItemId = 1
  /\ wk = [ w \in Workers |-> Idle ]
  /\ last = "none"
  /\ fails = 0
  /\ pure = [ u \in Users |-> FALSE ]
  /\ value = 0
  /\ result = NoResult

NextSummary == \E u \in Users : Profile(u)

SpecSummary == InitSummary /\ [][NextSummary]_vars

\* ------------------------------------- scenario: the page beside requests
\* The profile page is rendered while items are created and deleted.  The
\* ledger starts with PreBulk rows of earlier requests: Reserved by either
\* user, Void, or Reserved without a tag (left by a reserve that stopped
\* before its tag UPDATE).
ProfileKinds == { "void", "untagged" } \cup Users

ProfileLedger(kind) ==
  [ id \in 1..PreBulk |->
      CASE kind[id] = "void" -> VoidRow("u1", id)
        [] kind[id] = "untagged" -> NewRow("u1", id)
        [] OTHER -> ReservedRow(kind[id], id) ]

InitProfile ==
  /\ \E kind \in [ 1..PreBulk -> ProfileKinds ] : seq = ProfileLedger(kind)
  /\ nextSeqId = PreBulk + 1
  /\ items = << >>
  /\ nextItemId = 1
  /\ wk = [ w \in Workers |-> Idle ]
  /\ last = "none"
  /\ fails = 0
  /\ pure = [ u \in Users |-> FALSE ]
  /\ value = 0
  /\ result = NoResult

NextProfile ==
  \/ \E w \in Workers, c \in Collections : ItemInsert(w, c, NoTag)
  \/ \E w \in Workers : AsSelect(w)
  \/ \E w \in Workers : AsCount(w)
  \/ \E w \in Workers : AsStamp(w)
  \/ \E w \in Workers : AsInsert(w)
  \/ \E w \in Workers : AsMark(w)
  \/ \E w \in Workers : IcStore(w)
  \/ \E it \in 1..MaxItems : ItemDelete(it)
  \/ \E u \in Users : Profile(u)

SpecProfile == InitProfile /\ [][NextProfile]_vars

\* ---------------------------------------- scenario: collection deletion
\* Item.collection = ForeignKey(Collection, on_delete=CASCADE): the items a
\* delete of the collection takes with it.
CollectionItems(c) ==
  { it \in DOMAIN items : items[it].collection = c }

\* The ledger after the collector has deleted the items `its': for each of
\* them the reference is nulled (SET_NULL) and the post_delete receiver runs
\* with the tag the item carried.
RECURSIVE AfterCascade(_, _)
AfterCascade(table, its) ==
  IF its = {} THEN table
  ELSE LET it == CHOOSE x \in its : TRUE
       IN AfterCascade(AfterItemDelete(table, it), its \ {it})

\* views.collection_delete: the collection of the user is loaded and
\* deleted; the cascade deletes its items in the collector's transaction.
\* As for item_delete, items still inside their creating request are not
\* deleted, and the UPDATE of the receiver waits for a row lock on a row it
\* matches.  The model keeps no Collection table: after the delete the name
\* stands for the next collection of the same owner.
CollectionDelete(c) ==
  /\ CollectionItems(c) # {}
  /\ \A w \in Workers :
       wk[w].pc = "idle" \/ wk[w].item \notin CollectionItems(c)
  /\ \A it \in CollectionItems(c) : \A r \in DOMAIN seq :
       (items[it].asset_tag # NoTag /\ seq[r].tag = items[it].asset_tag)
         => ~Locked(r)
  /\ seq' = AfterCascade(seq, CollectionItems(c))
  /\ items' = Drop(items, CollectionItems(c))
  /\ pure' = [ u \in Users |->
                 pure[u] /\ \A it \in CollectionItems(c) : u \notin Touched(it) ]
  /\ UNCHANGED << nextSeqId, nextItemId, wk, last, fails >>
  /\ UNCHANGED readSide

\* Item creations, of which one may stop half-way, and deletions of the
\* collection, on the ledgers of the creation scenario.
NextCollection ==
  \/ \E w \in Workers, c \in Collections : ItemInsert(w, c, NoTag)
  \/ \E w \in Workers : AsSelect(w)
  \/ \E w \in Workers : AsCount(w)
  \/ \E w \in Workers : AsStamp(w)
  \/ \E w \in Workers : AsInsert(w)
  \/ \E w \in Workers : AsMark(w)
  \/ \E w \in Workers : IcStore(w)
  \/ \E w \in Workers : Fail(w)
  \/ \E c \in Collections : CollectionDelete(c)

SpecCollection == InitCreate /\ [][NextCollection]_vars

\* ---------------------------------------------------------------- claims
\* Rows of the ledger owned by a user.
RowsOf(user) == { r \in DOMAIN seq : seq[r].by = user }

\* The user's rows with status Reserved.
HeldReserved(user) == { r \in RowsOf(user) : seq[r].status = RESERVED }

\* The user's Reserved rows bound to no item.
ReservedUnassigned(user) ==
  { r \in HeldReserved(user) : seq[r].item = NoItem }

\* A transaction other than w's holds the row lock of r.
LockedByOther(w, r) ==
  \E o \in Workers \ {w} :
    wk[o].pc = "as_mark" /\ ~wk[o].minted /\ wk[o].rec = r

\* Worker w takes a step that is not a stop.
Acts(w) == wk'[w] # wk[w] /\ fails' = fails

\* Worker w's assign() commits and returns its row.
AssignReturns(w) ==
  wk[w].pc = "as_mark" /\ wk'[w].pc = "ic_store"

\* C1: no two ledger rows carry the same tag string, whatever their status
\* (Void rows included).
C1_TagsUnique ==
  \A r1 \in DOMAIN seq : \A r2 \in DOMAIN seq :
    (r1 # r2 /\ seq[r1].tag # NoTag) => seq[r1].tag # seq[r2].tag

\* C1 witness: a Void row beside another tagged row.
C1_Witness ==
  \E r1 \in DOMAIN seq : \E r2 \in DOMAIN seq :
    /\ r1 # r2
    /\ seq[r1].status = VOID
    /\ seq[r1].tag # NoTag
    /\ seq[r2].tag # NoTag

\* C2: the row a successful assign returns has a tag that no earlier assign
\* returned and that no other item carries.
C2_FreshTag ==
  [][ \A w \in Workers :
        (AssignReturns(w) /\ wk[w].rtag # NoTag) =>
          /\ \A r \in DOMAIN seq :
               seq[r].aat # NoTime => seq[r].tag # wk[w].rtag
          /\ \A j \in DOMAIN items \ {wk[w].item} :
               items[j].asset_tag # wk[w].rtag ]_vars

\* C3: between the locking SELECT of assign and its commit the row found is
\* held by one caller only and stays as it was read: Reserved, bound to no
\* item, never returned before.
C3_ClaimAtomic ==
  /\ \A w1 \in Workers : \A w2 \in Workers :
       (w1 # w2 /\ wk[w1].pc = "as_mark" /\ wk[w2].pc = "as_mark")
         => wk[w1].rec # wk[w2].rec
  /\ \A w \in Workers :
       (wk[w].pc = "as_mark" /\ ~wk[w].minted) =>
         /\ wk[w].rec \in DOMAIN seq
         /\ seq[wk[w].rec].status = RESERVED
         /\ seq[wk[w].rec].item = NoItem
         /\ seq[wk[w].rec].aat = NoTime
         /\ seq[wk[w].rec].tag = wk[w].rtag

\* C3 witness: two assign calls of one user are inside their transactions
\* at once, one holding a row it found, the other a different row.
C3_Witness ==
  \E w1 \in Workers : \E w2 \in Workers :
    /\ w1 # w2
    /\ wk[w1].pc = "as_mark" /\ wk[w2].pc = "as_mark"
    /\ wk[w1].user = wk[w2].user
    /\ ~wk[w1].minted
    /\ wk[w1].rec # wk[w2].rec

\* C4, the steps: reserve raises exactly when the user's Reserved rows
\* number ReservedLimit or more, and then changes nothing; otherwise its
\* INSERT adds one row, Reserved and owned by the user, and changes no other.
\* After nothing but sequential reserve calls the call that raises finds
\* exactly ReservedLimit rows: that many calls succeeded before it.
C4_Step ==
  \A w \in Workers :
    LET u == wk[w].user IN
    /\ (wk[w].pc \in {"br_count", "as_count"} /\ Acts(w)) =>
         /\ (wk'[w].pc = "idle") <=> (Cardinality(HeldReserved(u)) >= ReservedLimit)
         /\ seq' = seq
    /\ (wk[w].pc = "br_count" /\ Acts(w) /\ wk'[w].pc = "idle" /\ pure[u])
         => Cardinality(RowsOf(u)) = ReservedLimit
    /\ (wk[w].pc = "br_insert" /\ Acts(w)) =>
         \E id \in DOMAIN seq' \ DOMAIN seq :
           /\ DOMAIN seq' = DOMAIN seq \cup {id}
           /\ seq'[id].status = RESERVED
           /\ seq'[id].by = u
           /\ \A r \in DOMAIN seq : seq'[r] = seq[r]

\* C4, the states: after nothing but sequential reserve calls every row of
\* the user is Reserved and there are at most ReservedLimit of them.
C4_Sequential ==
  \A u \in Users :
    pure[u] =>
      /\ Cardinality(RowsOf(u)) <= ReservedLimit
      /\ \A r \in RowsOf(u) : seq[r].status = RESERVED

\* C4: reserve(user) fails with QuotaExceeded exactly when the user holds
\* ReservedLimit or more Reserved rows and otherwise creates one Reserved
\* row of the user; sequential calls succeed ReservedLimit times, then fail.
C4_Reserve == []C4_Sequential /\ [][C4_Step]_vars

\* C4 witness: after sequential reserve calls only, a call has just failed
\* on a full pool.
C4_Witness ==
  \E u \in Users :
    /\ pure[u]
    /\ last = "full"
    /\ Cardinality(HeldReserved(u)) = ReservedLimit
    /\ \A w \in Workers : wk[w].pc = "idle"

\* C5: a user never holds more than ReservedLimit Reserved rows.
C5_HardCap ==
  \A u \in Users : Cardinality(HeldReserved(u)) <= ReservedLimit

\* C6: a row's status only moves forward: an Assigned or Void row never
\* becomes Reserved again, a Void row stays Void.
C6_Forward ==
  [][ \A r \in DOMAIN seq \cap DOMAIN seq' :
        /\ seq[r].status \in {ASSIGNED, VOID} => seq'[r].status # RESERVED
        /\ seq[r].status = VOID => seq'[r].status = VOID ]_vars

\* C6 witness: a row that went Reserved, Assigned, Void, with a later row
\* of the same user assigned after it.
C6_Witness ==
  \E r \in DOMAIN seq : \E o \in DOMAIN seq :
    /\ seq[r].status = VOID
    /\ seq[r].aat # NoTime
    /\ o > r
    /\ seq[o].by = seq[r].by
    /\ seq[o].status = ASSIGNED

\* C7: a committed row has an item exactly when its status is Assigned.
C7_ItemIffAssigned ==
  \A r \in DOMAIN seq : (seq[r].item # NoItem) <=> (seq[r].status = ASSIGNED)

\* C8: an item is the assigned_item of at most one row, and an assign about
\* to commit binds an item no committed row is bound to.
C8_OneToOne ==
  /\ \A r1 \in DOMAIN seq : \A r2 \in DOMAIN seq :
       (seq[r1].item # NoItem /\ seq[r1].item = seq[r2].item) => r1 = r2
  /\ \A w \in Workers :
       wk[w].pc = "as_mark" =>
         \A r \in DOMAIN seq : seq[r].item # wk[w].item

\* C8 witness: two rows bound to two items.
C8_Witness ==
  \E r1 \in DOMAIN seq : \E r2 \in DOMAIN seq :
    /\ seq[r1].item # NoItem
    /\ seq[r2].item # NoItem
    /\ seq[r1].item # seq[r2].item

\* C9: a ledger row is never deleted: the set of rows only grows.
C9_NeverDeleted ==
  [][ DOMAIN seq \subseteq DOMAIN seq' ]_vars

\* C9 witness: the item of a row has been deleted and the row is still there.
C9_Witness ==
  \E r \in DOMAIN seq :
    /\ seq[r].aat # NoTime
    /\ seq[r].item = NoItem
    /\ seq[r].status = VOID

\* No Reserved unassigned row of the user is locked by a transaction other
\* than w's.
Uncontended(w, user) ==
  \A r \in ReservedUnassigned(user) : ~LockedByOther(w, r)

\* C10: an uncontended assign of a user with a Reserved unassigned row takes
\* the row with the earliest reserved_at, draws no new id, and its commit
\* marks that row without adding one.
C10_OldestFirst ==
  [][ \A w \in Workers :
        LET u == wk[w].user IN
        /\ ( /\ wk[w].pc = "as_select"
             /\ Acts(w)
             /\ Uncontended(w, u)
             /\ ReservedUnassigned(u) # {} ) =>
             /\ wk'[w].pc = "as_mark"
             /\ ~wk'[w].minted
             /\ wk'[w].rec \in ReservedUnassigned(u)
             /\ \A o \in ReservedUnassigned(u) :
                  seq[wk'[w].rec].at <= seq[o].at
             /\ nextSeqId' = nextSeqId
        /\ (AssignReturns(w) /\ ~wk[w].minted) =>
             /\ DOMAIN seq' = DOMAIN seq
             /\ nextSeqId' = nextSeqId
             /\ seq'[wk[w].rec].status = ASSIGNED
             /\ seq'[wk[w].rec].item = wk[w].item ]_vars

\* C10 witness: an uncontended assign holds the row reserved first although
\* a row reserved later has the smaller id.
C10_Witness ==
  \E w \in Workers :
    /\ wk[w].pc = "as_mark"
    /\ ~wk[w].minted
    /\ \A o \in Workers \ {w} : wk[o].pc = "idle"
    /\ \E o \in ReservedUnassigned(wk[w].user) \ {wk[w].rec} :
         /\ seq[o].at > seq[wk[w].rec].at
         /\ o < wk[w].rec

\* The assign() of item `it' has committed: no request is still inside it.
AssignDone(it) ==
  /\ it \in DOMAIN items
  /\ \A w \in Workers :
       wk[w].item = it =>
         wk[w].pc \notin {"as_select", "as_count", "as_stamp", "as_insert",
                          "as_mark"}

\* The user had no Reserved row when the creations started: none of the
\* rows of earlier requests is a row of the user that is, or was, Reserved.
NoPriorReservation(user) ==
  \A r \in DOMAIN seq :
    (r <= MaxPre /\ seq[r].by = user) => seq[r].status = VOID

\* C11: for a user with no prior reservations, after k successful assign
\* calls for k items there are exactly k Assigned rows for those items, one
\* per item, and their k tags are set and pairwise distinct.
C11_OnePerItem ==
  \A u \in Users :
    NoPriorReservation(u) =>
      LET done == { it \in DOMAIN items :
                      Owner(items[it].collection) = u /\ AssignDone(it) }
          recs == { r \in DOMAIN seq : seq[r].item \in done }
      IN /\ Cardinality(recs) = Cardinality(done)
         /\ Cardinality({ r \in RowsOf(u) : seq[r].status = ASSIGNED })
              = Cardinality(done)
         /\ \A it \in done :
              \E r \in recs : seq[r].item = it /\ seq[r].status = ASSIGNED
         /\ \A r1 \in recs : \A r2 \in recs :
              /\ seq[r1].tag # NoTag
              /\ (r1 # r2 => seq[r1].tag # seq[r2].tag)

\* C11 witness: two assign calls of a user without prior reservations have
\* both succeeded.
C11_Witness ==
  /\ NoPriorReservation("u1")
  /\ Cardinality({ it \in DOMAIN items : AssignDone(it) }) = 2
  /\ Cardinality({ r \in RowsOf("u1") : seq[r].status = ASSIGNED }) = 2

\* The rows of earlier requests that the user held Reserved when the
\* creations started (a creation may have turned them Assigned since).
AvailableAtStart(user) ==
  { r \in DOMAIN seq :
      r <= MaxPre /\ seq[r].by = user /\ seq[r].status # VOID }

\* Exactly two assign calls have been made, for two items of the user, and
\* both have returned.
BothAssignsDone(user) ==
  /\ nextItemId = 3
  /\ \A it \in DOMAIN items :
       Owner(items[it].collection) = user /\ AssignDone(it)

\* C12: two assign calls of one user that start with exactly one Reserved
\* row available end, whatever the interleaving, with one call holding that
\* row and the other a freshly minted one: two distinct Assigned rows, one
\* per item, and no Reserved row of the user left.
C12_OneConsumesOneMints ==
  \A u \in Users :
    (Cardinality(AvailableAtStart(u)) = 1 /\ BothAssignsDone(u)) =>
      \E old \in AvailableAtStart(u) :
        \E new \in DOMAIN seq \ (1..MaxPre) :
          /\ seq[old].status = ASSIGNED
          /\ seq[new].status = ASSIGNED
          /\ seq[new].by = u
          /\ { seq[old].item, seq[new].item } = DOMAIN items
          /\ seq[old].tag # seq[new].tag
          /\ DOMAIN seq = (1..MaxPre) \cup {new}
          /\ HeldReserved(u) = {}

\* C12 witness: both calls have returned; the item created first holds the
\* minted row, the item created second the row that was available.
C12_Witness ==
  /\ Cardinality(AvailableAtStart("u1")) = 1
  /\ BothAssignsDone("u1")
  /\ \E old \in AvailableAtStart("u1") : seq[old].item = 2
  /\ \E new \in DOMAIN seq \ (1..MaxPre) : seq[new].item = 1

\* The positions of a request inside assign(), from BEGIN to COMMIT.
InAssign(w) ==
  wk[w].pc \in {"as_select", "as_count", "as_stamp", "as_insert", "as_mark"}

\* C13, the states: a request inside assign() can always take its next
\* step, whatever locks the other requests hold, and two requests that are
\* about to commit hold different rows or rows they minted.
C13_CanStep ==
  /\ \A w \in Workers : InAssign(w) => ENABLED AssignStep(w)
  /\ \A w1 \in Workers : \A w2 \in Workers :
       (w1 # w2 /\ wk[w1].pc = "as_mark" /\ wk[w2].pc = "as_mark") =>
         /\ wk[w1].rec # wk[w2].rec
         /\ wk[w1].minted \/ ~LockedByOther(w1, wk[w1].rec)

\* C13: concurrent assign calls never wait for each other's row lock: each
\* always has an enabled next step, and each leaves assign().
C13_NeverBlocks ==
  /\ []C13_CanStep
  /\ \A w \in Workers : InAssign(w) ~> ~InAssign(w)

\* C13 witness: a request runs its SELECT while another request of the same
\* user holds the lock on the user's only Reserved row.
C13_Witness ==
  \E w1 \in Workers : \E w2 \in Workers :
    /\ wk[w1].pc = "as_mark" /\ ~wk[w1].minted
    /\ wk[w2].pc = "as_select"
    /\ wk[w2].user = wk[w1].user
    /\ ReservedUnassigned(wk[w1].user) = {wk[w1].rec}

\* The items a step deletes.
Deleted == DOMAIN items \ DOMAIN items'

\* C14, the release: deleting an item that carries a tag turns every row
\* with that tag Void and leaves the row's tag as it was.
C14_Voids ==
  \A it \in Deleted :
    items[it].asset_tag # NoTag =>
      \A r \in DOMAIN seq :
        seq[r].tag = items[it].asset_tag =>
          /\ r \in DOMAIN seq'
          /\ seq'[r].status = VOID
          /\ seq'[r].tag = seq[r].tag

\* C14, afterwards: a Void row keeps its tag and is bound to no further
\* item.
C14_VoidRowStays ==
  \A r \in DOMAIN seq :
    (seq[r].status = VOID /\ seq[r].tag # NoTag) =>
      /\ seq'[r].tag = seq[r].tag
      /\ seq'[r].item \in {seq[r].item, NoItem}

\* C14, afterwards: no item comes to carry the tag of a Void row.
C14_VoidTagNotStored ==
  \A r \in DOMAIN seq :
    (seq[r].status = VOID /\ seq[r].tag # NoTag) =>
      \A j \in DOMAIN items' :
        items'[j].asset_tag = seq[r].tag =>
          (j \in DOMAIN items /\ items[j].asset_tag = seq[r].tag)

\* C14: releasing an item that carries a tag sets the row with that tag to
\* Void, leaves the tag value unchanged, and the tag is never assigned to
\* any item afterwards.
C14_ReleaseVoidsForGood ==
  [][ C14_Voids /\ C14_VoidRowStays /\ C14_VoidTagNotStored ]_vars

\* The ledger's side of C14: what holds of the rows themselves.
C14_LedgerSide == [][ C14_Voids /\ C14_VoidRowStays ]_vars

\* Rows that carry the tag of item `it'.
Matching(it) ==
  { r \in DOMAIN seq :
      items[it].asset_tag # NoTag /\ seq[r].tag = items[it].asset_tag }

\* The delete of `it' leaves row r as it was, but for the reference to the
\* deleted item, which the database nulls (SET_NULL).
RowKept(r, it) ==
  /\ r \in DOMAIN seq'
  /\ seq'[r] = [seq[r] EXCEPT !.item = IF @ = it THEN NoItem ELSE @]

\* C15, the steps: the release of an item without a tag, or with a tag that
\* no row carries, changes no row; the release of an item whose row is Void
\* already leaves that row Void with its tag.
C15_Step ==
  \A it \in Deleted :
    /\ DOMAIN seq' = DOMAIN seq
    /\ Matching(it) = {} => \A r \in DOMAIN seq : RowKept(r, it)
    /\ \A r \in Matching(it) :
         seq[r].status = VOID => RowKept(r, it)

\* C15, the states: in each of the three cases the delete can run: nothing
\* in it raises or waits.
C15_CanDelete ==
  \A it \in DOMAIN items :
    ( /\ \A w \in Workers : wk[w].pc = "idle" \/ wk[w].item # it
      /\ \A r \in Matching(it) : seq[r].status = VOID )
    => ENABLED ItemDelete(it)

\* C15: release is a no-op that raises no error when the deleted item has no
\* tag, when no row matches its tag, or when the matching row is Void
\* already; in the first two cases the ledger is left unchanged.
C15_ReleaseNoOp == []C15_CanDelete /\ [][C15_Step]_vars

\* C15 witness: two items were deleted and the ledger holds one row, Void:
\* at least one of the two releases found no tag, no row, or a Void row.
C15_Witness ==
  /\ items = << >>
  /\ nextItemId = 3
  /\ DOMAIN seq = {1}
  /\ seq[1].status = VOID

\* Worker w's Item.save of a new item returns: the tag UPDATE went through.
CreationCompletes(w) ==
  /\ wk[w].pc = "ic_store"
  /\ wk'[w].pc = "idle"
  /\ last' = "created"
  /\ fails' = fails

\* C16: when the creation of an item without a preset tag completes, the
\* item's asset tag is set and is the tag of the one row bound to the item,
\* a row of the owner of the item's collection.
C16_StoredTag ==
  [][ \A w \in Workers :
        CreationCompletes(w) =>
          LET it == wk[w].item
              bound == { r \in DOMAIN seq' : seq'[r].item = it }
          IN /\ it \in DOMAIN items'
             /\ items'[it].asset_tag # NoTag
             /\ Cardinality(bound) = 1
             /\ \A r \in bound :
                  /\ seq'[r].tag = items'[it].asset_tag
                  /\ seq'[r].by = Owner(items'[it].collection) ]_vars

\* The count the bulk-reserve request of worker w is about to report.
ReportedCount(w) ==
  IF wk[w].pc = "br_settag" THEN wk[w].cnt + 1 ELSE wk[w].cnt

\* The bulk-reserve request of worker w returns.
BulkEnds(w) ==
  /\ wk[w].pc \in {"br_count", "br_settag"}
  /\ wk'[w].pc = "idle"
  /\ fails' = fails

\* The Reserved rows the user held when the scenario started.
ReservedAtStart(user) ==
  { r \in 1..PreBulk : seq[r].by = user /\ seq[r].status = RESERVED }

\* The rows of the user that the scenario's request has created.
CreatedFor(user, table) ==
  { r \in DOMAIN table : r > PreBulk /\ table[r].by = user }

Min(a, b) == IF a <= b THEN a ELSE b

CapHitPartWay(w) ==
  /\ wk[w].pc = "br_count"
  /\ wk[w].cnt > 0
  /\ Acts(w)
  /\ wk'[w].pc = "idle"

\* C18, the step: the quota error that ends a bulk-reserve loop part-way
\* changes no row, and the request returns with its warning.
C18_Step ==
  \A w \in Workers :
    CapHitPartWay(w) =>
      /\ seq' = seq
      /\ last' = "partial"
      /\ Cardinality(CreatedFor(wk[w].user, seq')) = wk[w].cnt

\* C18, the states: after such a request the rows it reserved are in the
\* ledger, Reserved, tagged and owned by the user.
C18_Kept ==
  (last = "partial" /\ \A w \in Workers : wk[w].pc = "idle") =>
    \E u \in Users :
      /\ CreatedFor(u, seq) # {}
      /\ \A r \in CreatedFor(u, seq) :
           seq[r].status = RESERVED /\ seq[r].tag = TagOf(r)

\* C18: when a bulk-reserve loop hits the cap part-way, the reservations it
\* made are not rolled back: they stay in the ledger as Reserved rows of the
\* user, and the request completes normally.
C18_NoRollback == []C18_Kept /\ [][C18_Step]_vars

\* C18 witness: a request has ended on the cap with a warning, and the row it
\* reserved before is in the ledger.
C18_Witness ==
  /\ last = "partial"
  /\ \A w \in Workers : wk[w].pc = "idle"
  /\ \E r \in DOMAIN seq : r > PreBulk /\ seq[r].status = RESERVED

\* The reserve() that worker w runs, from the view or inside assign(), raises
\* ValueError.
ReserveRaises(w) ==
  /\ wk[w].pc \in {"br_count", "as_count"}
  /\ Acts(w)
  /\ wk'[w].pc = "idle"

\* C19: a reserve call that fails on the quota leaves the ledger as it was:
\* no row is created, none is modified, and no id is drawn.
C19_FailedReserveNoChange ==
  [][ \A w \in Workers :
        ReserveRaises(w) =>
          /\ DOMAIN seq' = DOMAIN seq
          /\ \A r \in DOMAIN seq : seq'[r] = seq[r]
          /\ nextSeqId' = nextSeqId
          /\ items' = items ]_vars

\* C19 witness: the reserve() inside an assign has just failed on the quota:
\* the item is left without a tag and without a row, and the user holds the
\* Reserved rows that filled the quota.
C19_Witness ==
  /\ last = "quota"
  /\ \A w \in Workers : wk[w].pc = "idle"
  /\ Cardinality(HeldReserved("u1")) >= ReservedLimit
  /\ \E it \in DOMAIN items :
       /\ items[it].asset_tag = NoTag
       /\ \A r \in DOMAIN seq : seq[r].item # it

\* The assign() of worker w fails: it raises on the quota or the request
\* stops inside the atomic block.
AssignFails(w) ==
  /\ InAssign(w)
  /\ wk'[w].pc = "idle"

\* The reserve() that the bulk-reserve request of worker w is running fails:
\* it raises on the quota or the request stops inside it.
ReserveFails(w) ==
  /\ wk[w].pc \in {"br_count", "br_stamp", "br_insert", "br_settag"}
  /\ wk'[w].pc = "idle"
  /\ last' \in {"crashed", "partial", "full"}
  /\ ~(wk[w].pc = "br_settag" /\ fails' = fails)

\* C20, assign: a failed assign leaves every row as it was, no row Assigned
\* to its item and no row it minted.
C20_AssignSide ==
  \A w \in Workers :
    AssignFails(w) =>
      /\ seq' = seq
      /\ \A r \in DOMAIN seq' : seq'[r].item # wk[w].item
      /\ wk[w].minted => wk[w].rec \notin DOMAIN seq'

\* C20, reserve: a failed reserve leaves no row of its own behind.
C20_ReserveSide ==
  \A w \in Workers :
    ReserveFails(w) =>
      (wk[w].pc = "br_settag" => wk[w].rec \notin DOMAIN seq')

\* C20: an assign or reserve call that fails is never partially applied:
\* after a failed assign no row is Assigned to the item and no row minted by
\* the call remains, and a failed reserve leaves no row behind.
C20_NeverPartial == [][ C20_AssignSide /\ C20_ReserveSide ]_vars

\* The assign half of C20 alone.
C20_AssignAtomic == [][ C20_AssignSide ]_vars

\* Worker w's Item.save of a new item ends, by returning or by raising: the
\* reserve() inside assign() raised, or the UPDATE of the item row ran.
CreationEnds(w) ==
  /\ wk[w].pc \in {"as_count", "ic_store"}
  /\ wk'[w].pc = "idle"
  /\ fails' = fails

\* The quota half of C21: the creation of an item raises the quota error only
\* while the owner holds ReservedLimit or more Reserved rows.
C21_QuotaSide ==
  \A w \in Workers :
    (CreationEnds(w) /\ last' = "quota") =>
      Cardinality(HeldReserved(wk[w].user)) >= ReservedLimit

\* The success half of C21: a creation that does not end on a full quota
\* returns with the item carrying a tag.
C21_SuccessSide ==
  \A w \in Workers :
    CreationEnds(w) =>
      \/ /\ wk[w].pc = "as_count"
         /\ Cardinality(HeldReserved(wk[w].user)) >= ReservedLimit
      \/ /\ last' = "created"
         /\ wk[w].item \in DOMAIN items'
         /\ items'[wk[w].item].asset_tag # NoTag

\* C21: the creation of an item whose collection owner holds fewer than
\* ReservedLimit Reserved rows always succeeds with a tag, reused or minted;
\* the quota error ends a creation only when the quota is full.
C21_CreationSucceeds == [][ C21_QuotaSide /\ C21_SuccessSide ]_vars

\* The quota half of C21 alone.
C21_QuotaOnlyWhenFull == [][ C21_QuotaSide ]_vars

\* C22, the law: decoding what the ledger's encoder returns for an integer,
\* padded to the tag width or not, gives the integer back.
C22_Law ==
  /\ base36_to_int(to_base36(value)) = value
  /\ base36_to_int(zfill(to_base36(value), TagWidth)) = value

\* C22, the calls: whenever the decoder returns, on the string of an encoder
\* or on its padded form, it returns the integer the encoder was given.
C22_Step ==
  (result'.fn = "_base36_to_int" /\ result' # result) => result'.val = value

\* C22: decode(encode(n)) = n for every non-negative integer n, also when
\* the encoded string is zero-padded to 6 characters first.
C22_RoundTrip == []C22_Law /\ [][C22_Step]_vars

\* C22 witness: the decoder has returned the integer from a string of several
\* digits that was zero-padded to the tag width.
C22_Witness ==
  /\ result.fn = "_base36_to_int"
  /\ result.val = value
  /\ value >= 36
  /\ Len(result.arg) = TagWidth
  /\ result.arg[1] = "0"

\* The characters 0-9 and A-Z.
Base36Charset == { Alphabet[k] : k \in 1..36 }

\* The digit a character of the charset stands for.
DigitOf(c) == CHOOSE d \in 0..35 : Alphabet[d + 1] = c

\* The integer a digit string denotes when its first character is the most
\* significant digit.
RECURSIVE Denotes(_)
Denotes(s) ==
  IF s = << >> THEN 0
  ELSE Denotes(SubSeq(s, 1, Len(s) - 1)) * 36 + DigitOf(s[Len(s)])

\* C23: what either encoder returns for an integer n is a non-empty string
\* over 0-9A-Z that denotes n with the most significant digit first; it is
\* "0" for n = 0 and starts with a digit other than 0 for every other n.
C23_EncodeShape ==
  [][ (result'.fn \in Encoders /\ result' # result) =>
        LET s == result'.val IN
        /\ Len(s) >= 1
        /\ \A i \in 1..Len(s) : s[i] \in Base36Charset
        /\ Denotes(s) = value
        /\ value = 0 => s = << "0" >>
        /\ value # 0 => s[1] # "0" ]_vars

\* C23 witness: the encoder of the summary has returned "10" for 36.
C23_Witness ==
  /\ result.fn = "_int_to_base36"
  /\ value = 36
  /\ result.val = << "1", "0" >>

\* The profile page of a user has just been rendered.
ProfileShown(user) ==
  /\ result'.fn = "profile"
  /\ result'.arg = user
  /\ UNCHANGED << seq, items, wk >>

\* The ids that the tags of the user's Reserved rows denote.
ReservedIds(user) ==
  { Denotes(seq[r].tag) : r \in { x \in HeldReserved(user) :
                                    seq[x].tag # NoTag } }

\* The tag of the user's Reserved rows that denotes id.
ReservedTag(user, id) ==
  seq[CHOOSE r \in HeldReserved(user) :
        seq[r].tag # NoTag /\ Denotes(seq[r].tag) = id].tag

\* The maximal runs of consecutive integers in a set.
MaximalRuns(ids) ==
  { run \in ids \X ids :
      /\ run[1] <= run[2]
      /\ \A n \in run[1]..run[2] : n \in ids
      /\ (run[1] - 1) \notin ids
      /\ (run[2] + 1) \notin ids }

\* The entry of the summary the claim gives for a run.
RunEntry(user, run) ==
  [ label |-> IF run[1] = run[2] THEN ReservedTag(user, run[1])
              ELSE ReservedTag(user, run[1]) \o << " ", "-", " " >>
                     \o ReservedTag(user, run[2]),
    count |-> run[2] - run[1] + 1 ]

\* C24: the summary of a set of distinct tags has one entry per maximal run
\* of consecutive decoded ids and no other entry; the entry of a run has
\* count endId - startId + 1 and as label the tag itself for a run of one,
\* "startTag - endTag" otherwise.
C24_MaximalRuns ==
  [][ \A u \in Users :
        ProfileShown(u) =>
          LET runs == MaximalRuns(ReservedIds(u))
              shown == result'.val
          IN /\ Len(shown) = Cardinality(runs)
             /\ { shown[i] : i \in 1..Len(shown) }
                  = { RunEntry(u, run) : run \in runs } ]_vars

\* C24 witness: the summary of 000001, 000002, 000003, 000005 is
\* "000001 - 000003" with count 3 and "000005" with count 1.
C24_Witness ==
  /\ result.fn = "profile"
  /\ ReservedIds(result.arg) = { 1, 2, 3, 5 }
  /\ result.val =
       << [ label |-> << "0", "0", "0", "0", "0", "1", " ", "-", " ",
                         "0", "0", "0", "0", "0", "3" >>,
            count |-> 3 ],
          [ label |-> << "0", "0", "0", "0", "0", "5" >>, count |-> 1 ] >>

\* The id a label starts with and the id it ends with: its first and its
\* last 6 characters, read as base-36 numbers.
StartId(entry) == Denotes(SubSeq(entry.label, 1, 6))

EndId(entry) ==
  Denotes(SubSeq(entry.label, Len(entry.label) - 5, Len(entry.label)))

\* C30: the ranges of a summary come in strictly ascending order of their
\* start, each range ends at or after its start, and each range starts at
\* least 2 above the end of the range before it, so that no two ranges
\* overlap or touch.
C30_AscendingApart ==
  [][ \A u \in Users :
        ProfileShown(u) =>
          LET shown == result'.val IN
          /\ \A i \in 1..Len(shown) : StartId(shown[i]) <= EndId(shown[i])
          /\ \A i \in 1..(Len(shown) - 1) :
               /\ StartId(shown[i]) < StartId(shown[i + 1])
               /\ StartId(shown[i + 1]) >= EndId(shown[i]) + 2 ]_vars

\* C30 witness: a summary of three ranges, the last of which runs over the
\* wrap of the last digit, separated by gaps.
C30_Witness ==
  /\ result.fn = "profile"
  /\ Len(result.val) = 3
  /\ StartId(result.val[1]) < EndId(result.val[1])
  /\ EndId(result.val[1]) + 2 = StartId(result.val[2])
  /\ StartId(result.val[3]) = 35
  /\ EndId(result.val[3]) = 36

\* C25, the states: a tag that is set has exactly 6 characters of 0-9A-Z
\* and denotes the id of its row in base 36.
C25_Derived ==
  \A r \in DOMAIN seq :
    seq[r].tag # NoTag =>
      /\ Len(seq[r].tag) = 6
      /\ \A i \in 1..6 : seq[r].tag[i] \in Base36Charset
      /\ Denotes(seq[r].tag) = r

\* C25, the steps: no step of any request changes or removes a tag that is
\* set.
C25_Kept ==
  \A r \in DOMAIN seq :
    seq[r].tag # NoTag => (r \in DOMAIN seq' /\ seq'[r].tag = seq[r].tag)

\* C25: the tag of a row, once set, is the base-36 encoding of the row's id
\* zero-padded to 6 characters, and it never changes afterwards, under
\* assign, release or any other operation.
C25_TagImmutable == []C25_Derived /\ [][C25_Kept]_vars

\* C25 witness: a row with its tag has been assigned and released, and
\* another tagged row of the same user has been assigned since.
C25_Witness ==
  \E r \in DOMAIN seq : \E o \in DOMAIN seq :
    /\ seq[r].status = VOID
    /\ seq[r].aat # NoTime
    /\ seq[r].tag # NoTag
    /\ seq[o].status = ASSIGNED
    /\ seq[o].tag # NoTag
    /\ seq[o].by = seq[r].by
    /\ o # r

\* C26: the commit of a successful assign leaves every row but the one it
\* returns as it was; of the returned row it sets status, assigned_item and
\* assigned_at and leaves asset_tag, reserved_by and reserved_at as they
\* were read; a row the call minted is the only row added.  The statements
\* of assign before the commit change no committed row.
C26_AssignFrame ==
  [][ \A w \in Workers :
        /\ AssignReturns(w) =>
             LET rec == wk[w].rec IN
             /\ \A r \in DOMAIN seq \ {rec} :
                  r \in DOMAIN seq' /\ seq'[r] = seq[r]
             /\ DOMAIN seq' = DOMAIN seq \cup {rec}
             /\ seq'[rec].status = ASSIGNED
             /\ seq'[rec].item = wk[w].item
             /\ seq'[rec].aat # NoTime
             /\ seq'[rec].by = wk[w].user
             /\ seq'[rec].tag = wk[w].rtag
             /\ rec \in DOMAIN seq =>
                  /\ seq'[rec].tag = seq[rec].tag
                  /\ seq'[rec].by = seq[rec].by
                  /\ seq'[rec].at = seq[rec].at
        /\ (InAssign(w) /\ Acts(w) /\ ~AssignReturns(w)) => seq' = seq ]_vars

\* C26 witness: an assign has just returned a row it found, while the ledger
\* holds a Reserved row of the same user reserved after it and a row of the
\* other user.
C26_Witness ==
  \E w \in Workers :
    /\ wk[w].pc = "ic_store"
    /\ ~wk[w].minted
    /\ seq[wk[w].rec].status = ASSIGNED
    /\ seq[wk[w].rec].item = wk[w].item
    /\ \E o \in HeldReserved(wk[w].user) : seq[o].at > seq[wk[w].rec].at
    /\ \E x \in DOMAIN seq : seq[x].by # wk[w].user

\* The Reserved unassigned rows of the user that no transaction other than
\* w's has locked.
FreeFor(w, user) ==
  { r \in ReservedUnassigned(user) : ~LockedByOther(w, r) }

\* C27: the SELECT of an assign takes the row with the earliest reserved_at
\* among the user's eligible rows that no other transaction has locked,
\* whether or not older eligible rows are locked; it goes on to mint a new
\* row only when every eligible row of the user is locked or there is none.
C27_SkipLocked ==
  [][ \A w \in Workers :
        (wk[w].pc = "as_select" /\ Acts(w)) =>
          LET free == FreeFor(w, wk[w].user) IN
          /\ free # {} =>
               /\ wk'[w].pc = "as_mark"
               /\ ~wk'[w].minted
               /\ wk'[w].rec \in free
               /\ \A o \in free : seq[wk'[w].rec].at <= seq[o].at
          /\ free = {} => wk'[w].pc = "as_count"
          /\ nextSeqId' = nextSeqId
          /\ seq' = seq ]_vars

\* C27 witness: one assign holds the lock on the user's oldest eligible row
\* and another has taken the older of the two eligible rows that were left.
C27_Witness ==
  \E w1 \in Workers : \E w2 \in Workers :
    /\ wk[w1].pc = "as_mark" /\ ~wk[w1].minted
    /\ wk[w2].pc = "as_mark" /\ ~wk[w2].minted
    /\ wk[w1].user = wk[w2].user
    /\ seq[wk[w1].rec].at < seq[wk[w2].rec].at
    /\ \E o \in ReservedUnassigned(wk[w2].user) :
         seq[o].at > seq[wk[w2].rec].at

\* The ids that rows have been created with and that are known still: the
\* committed rows and the rows minted inside a transaction that is open.
KnownIds ==
  DOMAIN seq \cup { wk[w].rec : w \in { x \in Workers :
                                          wk[x].pc = "as_mark" /\ wk[x].minted } }

\* Worker w executes the INSERT of a new row.
Inserts(w) ==
  /\ wk[w].pc \in {"br_insert", "as_insert"}
  /\ Acts(w)

\* C28, the states: every id handed out so far lies below the next id.
C28_Below == \A r \in KnownIds : r < nextSeqId

\* C28, the steps: the next id never goes down, whether a request commits,
\* raises or is rolled back; an INSERT takes the next id, which is above all
\* ids handed out before, and moves the next id past it; a row that becomes
\* visible otherwise is the row a committing assign minted, under the id it
\* drew.
C28_Step ==
  /\ nextSeqId' >= nextSeqId
  /\ \A w \in Workers :
       Inserts(w) =>
         /\ wk'[w].rec = nextSeqId
         /\ \A r \in KnownIds : wk'[w].rec > r
         /\ nextSeqId' = nextSeqId + 1
  /\ \A r \in DOMAIN seq' \ DOMAIN seq :
       \/ r = nextSeqId
       \/ \E w \in Workers : AssignReturns(w) /\ wk[w].minted /\ wk[w].rec = r
  /\ (nextSeqId' # nextSeqId) => \E w \in Workers : Inserts(w)

Appears(tag, shown) ==
  \E i \in 1..Len(shown) :
    /\ StartId(shown[i]) <= Denotes(tag)
    /\ Denotes(tag) <= EndId(shown[i])

\* The number of tags a summary stands for.
RECURSIVE TotalCount(_)
TotalCount(shown) ==
  IF shown = << >> THEN 0 ELSE Head(shown).count + TotalCount(Tail(shown))

\* C29: when the profile page of a user is rendered, the tag of a ledger row
\* appears in the summary exactly when the row is Reserved and owned by that
\* user, in the committed state of that moment; the summary stands for no
\* further tag.  Tags of Assigned rows (from the commit of the assign on),
\* of Void rows and of other users' rows do not appear.
C29_SummaryIsReserved ==
  [][ \A u \in Users :
        ProfileShown(u) =>
          /\ \A r \in DOMAIN seq :
               seq[r].tag # NoTag =>
                 ( Appears(seq[r].tag, result'.val)
                     <=> (seq[r].status = RESERVED /\ seq[r].by = u) )
          /\ TotalCount(result'.val)
               = Cardinality({ r \in HeldReserved(u) : seq[r].tag # NoTag })
     ]_vars

\* C29 witness: the page shows one Reserved tag of the user and not the tag
\* of the row that an assign has consumed a moment ago: the item of that
\* assign has not even got its tag yet.
C29_Witness ==
  \E w \in Workers :
    /\ wk[w].pc = "ic_store"
    /\ ~wk[w].minted
    /\ wk[w].rtag # NoTag
    /\ seq[wk[w].rec].status = ASSIGNED
    /\ result.fn = "profile"
    /\ result.arg = wk[w].user
    /\ Len(result.val) = 1
    /\ ~Appears(wk[w].rtag, result.val)
    /\ \E r \in HeldReserved(wk[w].user) : Appears(seq[r].tag, result.val)

\* C31, the delete: the deletion of an item leaves the status of every row
\* that is not bound to the deleted item as it was, whatever tag the item
\* carried.
C31_DeleteSide ==
  \A it \in Deleted :
    \A r \in DOMAIN seq :
      seq[r].item # it =>
        (r \in DOMAIN seq' /\ seq'[r].status = seq[r].status)

\* C31, the rows: a row turns Void only in a step that deletes the item the
\* row is bound to.
C31_RowSide ==
  \A r \in DOMAIN seq \cap DOMAIN seq' :
    (seq[r].status # VOID /\ seq'[r].status = VOID) =>
      (seq[r].item # NoItem /\ seq[r].item \in Deleted)

\* C31: a row becomes Void only through the deletion of the item it is
\* assigned to; deleting an item never changes the status of a Reserved row
\* or of a row assigned to another item, also when the deleted item carried
\* a preset tag equal to the tag of such a row.
C31_VoidOnlyOwnItem == [][ C31_DeleteSide /\ C31_RowSide ]_vars

\* The SELECT of worker w's assign returns a row.
AssignSelects(w) ==
  /\ wk[w].pc = "as_select"
  /\ Acts(w)
  /\ wk'[w].pc = "as_mark"

\* C32: the row that the SELECT of an assign returns has its tag set, and
\* the row that an assign returns carries a tag of 6 characters, whatever a
\* reserve of the same user that runs outside a transaction is doing between
\* its INSERT and its tag UPDATE.
C32_NeverUntagged ==
  [][ \A w \in Workers :
        /\ AssignSelects(w) =>
             /\ seq[wk'[w].rec].tag # NoTag
             /\ Len(seq[wk'[w].rec].tag) = 6
        /\ AssignReturns(w) =>
             /\ seq'[wk[w].rec].tag # NoTag
             /\ Len(seq'[wk[w].rec].tag) = 6 ]_vars

\* The assign of worker w fails on the quota: the reserve() inside it raises.
AssignRaisesQuota(w) ==
  /\ wk[w].pc = "as_count"
  /\ Acts(w)
  /\ wk'[w].pc = "idle"
  /\ last' = "quota"

\* C33: an assign never fails on the quota while its user holds a Reserved
\* row that is bound to no item, be the user at the cap and be rows of the
\* user locked by other assign calls.
C33_NoQuotaWhileHolding ==
  [][ \A w \in Workers :
        AssignRaisesQuota(w) => ReservedUnassigned(wk[w].user) = {} ]_vars

\* No request is working on the item: its creation has returned, raised or
\* stopped.
AtRest(it) ==
  \A w \in Workers : wk[w].pc = "idle" \/ wk[w].item # it

\* C34: every committed item whose creating request is over has an asset
\* tag: no item row stays behind untagged when the assign of its creation
\* failed on the quota or the request stopped between the INSERT of the item
\* and the storing of the tag.
C34_NoUntaggedItem ==
  \A it \in DOMAIN items : AtRest(it) => items[it].asset_tag # NoTag

\* A row of a user other than `user' is in the ledger before and after the
\* step, with every field as it was.
OthersUntouched(user) ==
  \A r \in DOMAIN seq :
    seq[r].by # user => (r \in DOMAIN seq' /\ seq'[r] = seq[r])

\* C35: an assign for a user selects, and commits as Assigned, only a row
\* whose reserved_by is that user, who is the owner of the item's collection;
\* the commit leaves every row of the other users as it was, also when the
\* user holds no Reserved row and another user does.
C35_AssignOnlyOwnRows ==
  [][ \A w \in Workers :
        /\ AssignSelects(w) => seq[wk'[w].rec].by = wk[w].user
        /\ AssignReturns(w) =>
             /\ wk[w].user = Owner(items[wk[w].item].collection)
             /\ seq'[wk[w].rec].by = wk[w].user
             /\ seq'[wk[w].rec].item = wk[w].item
             /\ OthersUntouched(wk[w].user) ]_vars

\* C35 witness: an assign that found no Reserved row of its user has minted
\* and is about to commit, while another user holds a Reserved row bound to
\* no item.
C35_Witness ==
  \E w \in Workers :
    /\ wk[w].pc = "as_mark"
    /\ wk[w].minted
    /\ ReservedUnassigned(wk[w].user) = {}
    /\ \E u \in Users \ {wk[w].user} : ReservedUnassigned(u) # {}

\* The number of the user's rows with status Reserved after the step, as a
\* committed reader counts them.
HeldReservedAfter(user) ==
  { r \in DOMAIN seq' : seq'[r].by = user /\ seq'[r].status = RESERVED }

\* C36, the states: the row an assign has minted and not yet committed is in
\* no committed state of the ledger.
C36_MintedUnseen ==
  \A w \in Workers :
    (wk[w].pc = "as_mark" /\ wk[w].minted) => wk[w].rec \notin DOMAIN seq

\* C36, the steps: the commit of an assign that reuses a row lowers the
\* number of its user's Reserved rows by one, the commit of an assign that
\* minted leaves the number as it was and makes the new row visible as
\* Assigned, and no row that is in the ledger with another status turns
\* Reserved.
C36_CommitStep ==
  /\ \A w \in Workers :
       AssignReturns(w) =>
         IF wk[w].minted
           THEN /\ wk[w].rec \notin DOMAIN seq
                /\ seq'[wk[w].rec].status = ASSIGNED
                /\ Cardinality(HeldReservedAfter(wk[w].user))
                     = Cardinality(HeldReserved(wk[w].user))
           ELSE /\ seq[wk[w].rec].status = RESERVED
                /\ seq'[wk[w].rec].status = ASSIGNED
                /\ Cardinality(HeldReservedAfter(wk[w].user))
                     = Cardinality(HeldReserved(wk[w].user)) - 1
  /\ \A r \in DOMAIN seq \cap DOMAIN seq' :
       seq'[r].status = RESERVED => seq[r].status = RESERVED

\* C36: an assign that completes never raises the number of Reserved rows of
\* its user (one less when it reuses a reservation, the same when it mints),
\* and a row minted by assign is never visible with status Reserved: it is
\* invisible until the commit and Assigned from the commit on.
C36_AssignNeverAddsReserved ==
  /\ []C36_MintedUnseen
  /\ [][C36_CommitStep]_vars

\* C36 witness: one assign has committed a row it minted and another one a
\* reservation it reused; both rows are visible as Assigned.
C36_Witness ==
  \E w1 \in Workers : \E w2 \in Workers :
    /\ wk[w1].pc = "ic_store" /\ wk[w1].minted
    /\ seq[wk[w1].rec].status = ASSIGNED
    /\ wk[w2].pc = "ic_store" /\ ~wk[w2].minted
    /\ seq[wk[w2].rec].status = ASSIGNED

\* The step deletes a collection: all the items of one collection go, and
\* there is at least one.
CollectionDeleted ==
  \E c \in Collections :
    /\ { it \in DOMAIN items : items[it].collection = c } # {}
    /\ Deleted = { it \in DOMAIN items : items[it].collection = c }

\* C37: when a collection has been deleted, every row that was Assigned to
\* one of its items is Void with no item, and no row of the ledger refers to
\* an item that is gone.
C37_CollectionDeleteVoids ==
  [][ CollectionDeleted =>
        /\ \A r \in DOMAIN seq :
             (seq[r].status = ASSIGNED /\ seq[r].item \in Deleted) =>
               /\ r \in DOMAIN seq'
               /\ seq'[r].status = VOID
               /\ seq'[r].item = NoItem
        /\ \A r \in DOMAIN seq' :
             seq'[r].item = NoItem \/ seq'[r].item \in DOMAIN items' ]_vars

\* The user's Reserved rows whose tag is set.
TaggedReserved(user) ==
  { r \in HeldReserved(user) : seq[r].tag # NoTag }

\* The first and the last 6 characters of a label.
StartLabel(entry) == SubSeq(entry.label, 1, 6)

EndLabel(entry) ==
  SubSeq(entry.label, Len(entry.label) - 5, Len(entry.label))

\* The entry is a tag alone, or two tags with " - " between them, and each
\* of the tags is the string that the user's Reserved row of the id it
\* denotes carries in the ledger.
LabelIsStored(user, entry) ==
  /\ Len(entry.label) \in { 6, 15 }
  /\ Len(entry.label) = 15 =>
       SubSeq(entry.label, 7, 9) = << " ", "-", " " >>
  /\ StartId(entry) \in TaggedReserved(user)
  /\ seq[StartId(entry)].tag = StartLabel(entry)
  /\ EndId(entry) \in TaggedReserved(user)
  /\ seq[EndId(entry)].tag = EndLabel(entry)
  /\ (Len(entry.label) = 6) = (entry.count = 1)

\* C38: when the profile page of a user is rendered, the counts of the
\* summary add up to the number of the user's Reserved rows that have a tag
\* (rows without a tag are not counted), and the tag shown alone or at
\* either end of a range is, character for character, the tag stored in the
\* user's row of that id.
C38_CountsAndLabels ==
  [][ \A u \in Users :
        ProfileShown(u) =>
          /\ TotalCount(result'.val) = Cardinality(TaggedReserved(u))
          /\ \A i \in 1..Len(result'.val) :
               LabelIsStored(u, result'.val[i]) ]_vars

\* C38 witness: the page of a user who holds a Reserved row with a tag and
\* a Reserved row without one shows one label, the stored tag, with count 1.
C38_Witness ==
  /\ result.fn = "profile"
  /\ Cardinality(HeldReserved(result.arg)) = 2
  /\ Cardinality(TaggedReserved(result.arg)) = 1
  /\ Len(result.val) = 1
  /\ result.val[1].count = 1
  /\ \E r \in TaggedReserved(result.arg) : result.val[1].label = seq[r].tag

====
